---- MODULE Spec2Model ----
(***************************************************************************)
(* A model of app.py, the ASX mining stocks dashboard.                     *)
(*                                                                         *)
(* Two specifications share the module:                                    *)
(*   MetricsSpec  the safe-metrics functions (get_safe_value,              *)
(*                calculate_daily_change, the metric tiles of the Charts   *)
(*                tab and the row of the Summary tab) applied to a         *)
(*                DataFrame drawn from a bounded set of shapes;            *)
(*   Spec         main(): one script run per user interaction, the Charts  *)
(*                loop, the Summary loop and the final table or warning,   *)
(*                with the data provider answering each request            *)
(*                nondeterministically.                                    *)
(*                                                                         *)
(* Python values are records [t, s, n] of one shape, so that any two can   *)
(* be compared: t is "str", "num", "nan" or "raise".  Numbers are          *)
(* integers; the results of float64 arithmetic are finite floats (see      *)
(* below), inf, -inf or nan.                                               *)
(***************************************************************************)
EXTENDS Integers, Sequences, FiniteSets, TLC

VARIABLES data, op, out,
          selected, pc, idx, requests, notices, charts, tiles,
          summary_data, table, exc

vars == <<data, op, out, selected, pc, idx, requests, notices, charts, tiles,
          summary_data, table, exc>>

metricsVars == <<data, op, out>>
refreshVars == <<selected, pc, idx, requests, notices, charts, tiles,
                 summary_data, table, exc>>

(***************************************************************************)
(* Bounds of the model.                                                    *)
(***************************************************************************)
\* the longest DataFrame (in bars) handed to the metrics functions
MaxBars == 3
\* how many entries of the catalog, from its head, the user picks among
NumChoices == 3
\* the longest selection the user makes
MaxSelected == 2

(***************************************************************************)
(* Python values.                                                          *)
(***************************************************************************)
PyStr(s) == [t |-> "str", s |-> s, n |-> 0]
PyNum(n) == [t |-> "num", s |-> "", n |-> n]
PyNaN == [t |-> "nan", s |-> "", n |-> 0]
Raise(e) == [t |-> "raise", s |-> e, n |-> 0]
NA == PyStr("N/A")
IsRaise(v) == v.t = "raise"

(***************************************************************************)
(* A DataFrame: its columns and its rows (bars), oldest first.  None is a  *)
(* value of the same shape.  A bar maps each column of the frame to a      *)
(* number or to NaN (a value the provider left out).                       *)
(***************************************************************************)
MetricColumns == {"Close", "High", "Low", "Volume"}
ChartColumns == <<"Open", "High", "Low", "Close">>
AllColumns == MetricColumns \cup {"Open"}

NoneData == [none |-> TRUE, cols |-> {}, bars |-> <<>>]
Frame(cols, bars) == [none |-> FALSE, cols |-> cols, bars |-> bars]

Restrict(bar, cols) == [c \in cols |-> bar[c]]

\* pandas: DataFrame.empty is true when any axis has length 0
IsEmpty(d) == Len(d.bars) = 0 \/ d.cols = {}

(***************************************************************************)
(* float64 values.  A finite float is kept as the exact rational num/den   *)
(* (num >= 0, den > 0) it was computed to approximate, its sign (floats    *)
(* have a negative zero) and the side on which the float lies: side > 0    *)
(* when its magnitude is above num/den, side < 0 when below, 0 when the    *)
(* float is num/den exactly.  The rounding error of float64 is far smaller *)
(* than the distance from a quotient of integers below 2^31 to the nearest *)
(* decimal tie it is not on, so the side decides the two printed decimals  *)
(* exactly when num/den is itself a tie.                                   *)
(***************************************************************************)
Abs(x) == IF x < 0 THEN -x ELSE x

Finite(neg, num, den, side) ==
    [k |-> "fin", neg |-> neg, num |-> num, den |-> den, side |-> side]
Inf == [k |-> "inf", neg |-> FALSE, num |-> 0, den |-> 1, side |-> 0]
NegInf == [k |-> "-inf", neg |-> TRUE, num |-> 0, den |-> 1, side |-> 0]
FloatNaN == [k |-> "nan", neg |-> FALSE, num |-> 0, den |-> 1, side |-> 0]

\* float(n) of an integer: exact
Exact(n) == Finite(n < 0, Abs(n), 1, 0)

RECURSIVE Exponent(_, _)
\* the binary exponent e of n/d (n, d > 0): 2^e <= n/d < 2^(e+1)
Exponent(n, d) ==
    IF n >= 2 * d THEN Exponent(n, 2 * d) + 1
    ELSE IF n < d THEN Exponent(2 * n, d) - 1
    ELSE 0

RECURSIVE DoubleMod(_, _, _)
\* x * 2^times modulo m (several doublings a step while the product fits
\* an integer)
DoubleMod(x, times, m) ==
    IF times = 0 THEN x % m
    ELSE IF times >= 4 /\ m <= 2^26 THEN DoubleMod((16 * x) % m, times - 4, m)
    ELSE IF times >= 2 /\ m <= 2^28 THEN DoubleMod((4 * x) % m, times - 2, m)
    ELSE DoubleMod((2 * x) % m, times - 1, m)

\* float64 arithmetic of (n / d) * 100 for integers n, d > 0: the sign of
\* fl(fl(n / d) * 100) - 100 * n / d.  The quotient keeps 53 bits M of
\* n * 2^s / d, rounded to nearest (ties to even); the product 25 * M * 4
\* is rounded to 53 bits again, dropping 4 or 5 bits.  Only the low bits
\* of M and the remainder of the division are needed.
ProductSide(n, d) ==
    LET e == Exponent(n, d)
        s == 52 - e
        y == DoubleMod(n % (64 * d), s, 64 * d)
        floor == y \div d
        rem == y % d
        up == 2 * rem > d \/ (2 * rem = d /\ floor % 2 = 1)
        mlow == (floor + (IF up THEN 1 ELSE 0)) % 64
        quotientError == IF up THEN d - rem ELSE -rem
        lhs == IF e >= 0 THEN 25 * n ELSE 25 * n * 2^(-e)
        rhs == IF e >= 0 THEN 32 * d * 2^e ELSE 32 * d
        dropped == IF lhs > rhs \/ (lhs = rhs /\ up) THEN 5 ELSE 4
        v == (25 * mlow) % 2^(dropped + 1)
        low == v % 2^dropped
        half == 2^(dropped - 1)
        productError == IF low < half \/ (low = half /\ v \div 2^dropped = 0)
                        THEN -low ELSE 2^dropped - low
    IN  productError * d + 25 * quotientError

\* ((last - prev) / prev) * 100 (line 74) in float64; numpy divides by zero
\* without raising
PercentChange(last, prev) ==
    IF last.t = "nan" \/ prev.t = "nan" THEN FloatNaN
    ELSE IF prev.n = 0
         THEN IF last.n > 0 THEN Inf ELSE IF last.n < 0 THEN NegInf ELSE FloatNaN
         ELSE LET diff == last.n - prev.n
              IN  IF diff = 0 THEN Finite(prev.n < 0, 0, 1, 0)
                  ELSE Finite((diff < 0) # (prev.n < 0), 100 * Abs(diff), Abs(prev.n),
                              ProductSide(Abs(diff), Abs(prev.n)))

(***************************************************************************)
(* Formatting: what the f-strings of the source produce.                   *)
(***************************************************************************)
Pad2(k) == IF k < 10 THEN "0" \o ToString(k) ELSE ToString(k)

Pad3(k) == IF k < 10 THEN "00" \o ToString(k)
           ELSE IF k < 100 THEN "0" \o ToString(k) ELSE ToString(k)

\* the magnitude of the finite float f in hundredths, as the 'f'
\* presentation type rounds it: to nearest, and a float that is exactly
\* halfway to even
RoundHundredths(f) ==
    LET a == f.num * 100
        q == a \div f.den
        r == a % f.den
    IN  IF 2 * r > f.den THEN q + 1
        ELSE IF 2 * r < f.den THEN q
        ELSE IF f.side > 0 THEN q + 1
        ELSE IF f.side < 0 THEN q
        ELSE IF q % 2 = 1 THEN q + 1 ELSE q

\* format(f, ".2f") of the finite float f
Fixed2(f) ==
    LET q == RoundHundredths(f)
    IN  (IF f.neg THEN "-" ELSE "") \o ToString(q \div 100) \o "." \o Pad2(q % 100)

RECURSIVE Grouped(_)
\* format(n, ",") of a natural number: groups of three digits
Grouped(n) == IF n < 1000 THEN ToString(n)
              ELSE Grouped(n \div 1000) \o "," \o Pad3(n % 1000)

\* f"${x:.2f}" (lines 119, 131, 144, 148, 152)
FormatPrice(v) == IF v.t = "nan" THEN PyStr("$nan")
                  ELSE PyStr("$" \o Fixed2(Exact(v.n)))

\* f"{volume:,.0f}" (lines 126, 156)
FormatVolume(v) == IF v.t = "nan" THEN PyStr("nan")
                   ELSE PyStr((IF v.n < 0 THEN "-" ELSE "") \o Grouped(Abs(v.n)))

\* f"{change:.2f}%" (line 75)
FormatPercent(f) ==
    IF f.k = "fin" THEN PyStr(Fixed2(f) \o "%")
    ELSE PyStr(f.k \o "%")

(***************************************************************************)
(* pandas accessors.                                                       *)
(***************************************************************************)
\* data[column]: the column as a sequence, or the exception raised
Column(d, column) ==
    IF d.none THEN Raise("TypeError")
    ELSE IF column \notin d.cols THEN Raise("KeyError")
    ELSE [t |-> "series", s |-> "", n |-> 0,
          v |-> [k \in 1..Len(d.bars) |-> d.bars[k][column]]]

\* series[index] for an integer index on a date-indexed series: pandas (up
\* to 2.x) falls back to the position, negative indexes counting from the
\* end
At(series, index) ==
    LET pos == IF index < 0 THEN Len(series) + index + 1 ELSE index + 1
    IN  IF pos \in 1..Len(series) THEN series[pos] ELSE Raise("IndexError")

Numbers(series) == {series[k].n : k \in {j \in 1..Len(series) : series[j].t = "num"}}

\* Series.max(): NaN values are skipped; NaN when nothing is left
SeriesMax(series) ==
    IF Numbers(series) = {} THEN PyNaN
    ELSE PyNum(CHOOSE m \in Numbers(series) : \A x \in Numbers(series) : x <= m)

\* Series.min()
SeriesMin(series) ==
    IF Numbers(series) = {} THEN PyNaN
    ELSE PyNum(CHOOSE m \in Numbers(series) : \A x \in Numbers(series) : m <= x)

(***************************************************************************)
(* The safe-metrics functions.                                             *)
(***************************************************************************)
\* get_safe_value sharing the guard of calculate_daily_change: a series of
\* fewer than two bars counts as no data
get_safe_value_two_bars(d, column, index, default) ==
    IF d.none \/ IsEmpty(d) \/ Len(d.bars) < 2 THEN default
    ELSE LET col == Column(d, column)
         IN  IF IsRaise(col) THEN default
             ELSE LET v == At(col.v, index)
                  IN  IF IsRaise(v) THEN default ELSE v

\* get_safe_value(data, column, index=-1, default="N/A") (lines 60-67)
get_safe_value(d, column, index, default) ==
    IF d.none \/ IsEmpty(d) THEN default
    ELSE LET col == Column(d, column)
         IN  IF IsRaise(col) THEN default
             ELSE LET v == At(col.v, index)
                  IN  IF IsRaise(v) THEN default ELSE v

\* calculate_daily_change measuring the change from the first bar of the
\* series (data['Close'][0]) instead of from the second-to-last
calculate_daily_change_first_bar(d) ==
    IF d.none \/ IsEmpty(d) \/ Len(d.bars) < 2 THEN NA
    ELSE LET col == Column(d, "Close")
         IN  IF IsRaise(col) THEN NA
             ELSE FormatPercent(PercentChange(At(col.v, -1), At(col.v, 0)))

\* calculate_daily_change(data) (lines 69-77)
calculate_daily_change(d) ==
    IF d.none \/ IsEmpty(d) \/ Len(d.bars) < 2 THEN NA
    ELSE LET col == Column(d, "Close")
         IN  IF IsRaise(col) THEN NA
             ELSE LET last == At(col.v, -1)
                      prev == At(col.v, -2)
                  IN  IF IsRaise(last) \/ IsRaise(prev) THEN NA
                      ELSE FormatPercent(PercentChange(last, prev))

\* current_price = get_safe_value(data, 'Close'), formatted when it is not
\* "N/A" (lines 117-119, 142-144)
current_price_of(d) ==
    LET v == get_safe_value(d, "Close", -1, NA)
    IN  IF v # NA THEN FormatPrice(v) ELSE v

\* volume = get_safe_value(data, 'Volume'), formatted when it is not "N/A"
\* (lines 124-126, 154-156)
volume_of(d) ==
    LET v == get_safe_value(d, "Volume", -1, NA)
    IN  IF v # NA THEN FormatVolume(v) ELSE v

\* high = get_safe_value(data, 'High', default=0), replaced by
\* f"${data['High'].max():.2f}" when it is not "N/A" (lines 129-131, 146-148)
year_high_of(d) ==
    LET v == get_safe_value(d, "High", -1, PyNum(0))
        col == Column(d, "High")
    IN  IF v # NA
        THEN IF IsRaise(col) THEN col ELSE FormatPrice(SeriesMax(col.v))
        ELSE v

\* year_low = get_safe_value(data, 'Low', default=0), replaced by
\* f"${data['Low'].min():.2f}" when it is not "N/A" (lines 150-152)
year_low_of(d) ==
    LET v == get_safe_value(d, "Low", -1, PyNum(0))
        col == Column(d, "Low")
    IN  IF v # NA
        THEN IF IsRaise(col) THEN col ELSE FormatPrice(SeriesMin(col.v))
        ELSE v

NoFigure == [none |-> TRUE, title |-> "", bars |-> 0]

\* create_stock_chart(data, company_name) (lines 41-58): the figure, None,
\* or the KeyError of the first OHLC column the frame lacks
create_stock_chart(d, company_name) ==
    IF d.none \/ IsEmpty(d) THEN [exc |-> "", fig |-> NoFigure]
    ELSE IF \E k \in 1..Len(ChartColumns) : ChartColumns[k] \notin d.cols
         THEN [exc |-> "KeyError", fig |-> NoFigure]
         ELSE [exc |-> "",
               fig |-> [none |-> FALSE, title |-> company_name \o " Stock Price",
                        bars |-> Len(d.bars)]]

Tile(label, value) == [label |-> label, value |-> value]

\* the four metric tiles of the Charts tab (lines 115-132): the tiles shown,
\* and the exception that ended it, if any
metric_tiles(d) ==
    LET current_price == current_price_of(d)
        change == calculate_daily_change(d)
        volume == volume_of(d)
        high == year_high_of(d)
        first == <<Tile("Current Price", current_price),
                   Tile("Daily Change", change),
                   Tile("Volume", volume)>>
    IN  IF IsRaise(high) THEN [exc |-> high.s, tiles |-> first]
        ELSE [exc |-> "", tiles |-> Append(first, Tile("52W High", high))]

RowKeys == {"Company", "Ticker", "Current Price", "Daily Change %", "Volume",
            "Year High", "Year Low"}

\* a row of the Summary tab (lines 142-166): the row appended to
\* summary_data, or the exception that escaped before it was built
summary_row(company, ticker, d) ==
    LET current_price == current_price_of(d)
        year_high == year_high_of(d)
        year_low == year_low_of(d)
        volume == volume_of(d)
        change == calculate_daily_change(d)
    IN  IF IsRaise(year_high) THEN [exc |-> year_high.s, row |-> <<>>]
        ELSE IF IsRaise(year_low) THEN [exc |-> year_low.s, row |-> <<>>]
        ELSE [exc |-> "",
              row |-> [k \in RowKeys |->
                        CASE k = "Company" -> PyStr(company)
                          [] k = "Ticker" -> PyStr(ticker)
                          [] k = "Current Price" -> current_price
                          [] k = "Daily Change %" -> change
                          [] k = "Volume" -> volume
                          [] k = "Year High" -> year_high
                          [] k = "Year Low" -> year_low]]

(***************************************************************************)
(* The DataFrames handed to the metrics functions: None, and every frame   *)
(* of at most MaxBars bars over every subset of the five columns.  The     *)
(* bars are daily bars of a price series (among them the bars of the       *)
(* documented scenarios and two whose change, -58.125 per cent, is a       *)
(* decimal tie), a day with zero close and a day the provider left        *)
(* all but out (NaN everywhere except the low).                            *)
(***************************************************************************)
OHLCV(open, high, low, close, volume) ==
    [c \in AllColumns |->
        CASE c = "Open" -> open
          [] c = "High" -> high
          [] c = "Low" -> low
          [] c = "Close" -> close
          [] c = "Volume" -> volume]

\* a bar that opened at its low
Bar(close, high, low, volume) == OHLCV(low, high, low, close, volume)

Bars == { Bar(PyNum(100), PyNum(105), PyNum(98), PyNum(2000)),
          Bar(PyNum(50), PyNum(55), PyNum(48), PyNum(1000)),
          Bar(PyNum(110), PyNum(115), PyNum(108), PyNum(1234567)),
          Bar(PyNum(160), PyNum(170), PyNum(60), PyNum(999)),
          Bar(PyNum(67), PyNum(70), PyNum(60), PyNum(20)),
          Bar(PyNum(0), PyNum(5), PyNum(0), PyNum(0)),
          Bar(PyNaN, PyNaN, PyNum(45), PyNaN) }

BarSeqs == UNION { [1..n -> Bars] : n \in 0..MaxBars }

Frames == { Frame(cols, [k \in 1..Len(bs) |-> Restrict(bs[k], cols)]) :
               cols \in SUBSET AllColumns, bs \in BarSeqs }

Inputs == Frames \cup {NoneData}

\* MINING_STOCKS (lines 15-26), in insertion order
Catalog == << [name |-> "BHP Group", ticker |-> "BHP.AX"],
              [name |-> "Rio Tinto", ticker |-> "RIO.AX"],
              [name |-> "Fortescue Metals", ticker |-> "FMG.AX"],
              [name |-> "Northern Star", ticker |-> "NST.AX"],
              [name |-> "Evolution Mining", ticker |-> "EVN.AX"],
              [name |-> "Mineral Resources", ticker |-> "MIN.AX"],
              [name |-> "South32", ticker |-> "S32.AX"],
              [name |-> "Newcrest Mining", ticker |-> "NCM.AX"],
              [name |-> "Pilbara Minerals", ticker |-> "PLS.AX"],
              [name |-> "Lynas Rare Earths", ticker |-> "LYC.AX"] >>

Names == {Catalog[k].name : k \in 1..Len(Catalog)}

\* MINING_STOCKS[company]
MINING_STOCKS(company) ==
    Catalog[CHOOSE k \in 1..Len(Catalog) : Catalog[k].name = company].ticker

\* what the multiselect can return: the chosen names, each once, in the
\* order they were chosen
Choices == {Catalog[k].name : k \in 1..NumChoices}

NoOp == [name |-> "none", column |-> "", default |-> NA]
NoOut == [exc |-> "", value |-> NA]

\* the refresh is not running
RefreshIdle ==
    /\ selected = <<>>
    /\ pc = "idle"
    /\ idx = 0
    /\ requests = <<>>
    /\ notices = <<>>
    /\ charts = <<>>
    /\ tiles = <<>>
    /\ summary_data = <<>>
    /\ table = [shown |-> FALSE, rows |-> <<>>]
    /\ exc = ""

MetricsInit ==
    /\ data \in Inputs
    /\ op = NoOp
    /\ out = NoOut
    /\ RefreshIdle

\* Each behaviour makes one call on the frame it starts with (the result
\* of a call depends on nothing a previous call left behind).
\* get_safe_value(data, column) and get_safe_value(data, column, default=0),
\* the two ways main calls it
CallGetSafeValue ==
    \E column \in MetricColumns, default \in {NA, PyNum(0)} :
        /\ op = NoOp
        /\ op' = [name |-> "get_safe_value", column |-> column, default |-> default]
        /\ out' = [exc |-> "", value |-> get_safe_value(data, column, -1, default)]
        /\ UNCHANGED <<data, refreshVars>>

CallCalculateDailyChange ==
    /\ op = NoOp
    /\ op' = [name |-> "calculate_daily_change", column |-> "", default |-> NA]
    /\ out' = [exc |-> "", value |-> calculate_daily_change(data)]
    /\ UNCHANGED <<data, refreshVars>>

\* the body of the Charts loop as main reaches it (lines 108-132):
\* load_stock_data has turned an empty frame into None (lines 33-36), line
\* 108 lets only data through, the chart is drawn first (lines 110-112) and
\* its exception leaves no tile
CallMetricTiles ==
    \E company \in Choices :
        LET d == IF data.none \/ IsEmpty(data) THEN NoneData ELSE data
            chart == create_stock_chart(d, company)
            metrics == metric_tiles(d)
        IN  /\ op = NoOp
            /\ op' = [name |-> "metric_tiles", column |-> "", default |-> NA]
            /\ out' = IF d.none \/ IsEmpty(d)
                      THEN [exc |-> "", tiles |-> <<>>, fig |-> NoFigure]
                      ELSE IF chart.exc # ""
                      THEN [exc |-> chart.exc, tiles |-> <<>>, fig |-> NoFigure]
                      ELSE [exc |-> metrics.exc, tiles |-> metrics.tiles,
                            fig |-> chart.fig]
            /\ UNCHANGED <<data, refreshVars>>

\* the summary row as main reaches it: load_stock_data has turned an empty
\* frame into None (lines 33-36) and line 141 lets only data through
CallSummaryRow ==
    \E company \in Choices :
        LET d == IF data.none \/ IsEmpty(data) THEN NoneData ELSE data
        IN  /\ op = NoOp
            /\ op' = [name |-> "summary_row", column |-> "", default |-> NA]
            /\ out' = IF ~d.none THEN summary_row(company, MINING_STOCKS(company), d)
                      ELSE [exc |-> "", row |-> <<>>]
            /\ UNCHANGED <<data, refreshVars>>

MetricsNext ==
    \/ CallGetSafeValue
    \/ CallCalculateDailyChange
    \/ CallMetricTiles
    \/ CallSummaryRow

MetricsSpec == MetricsInit /\ [][MetricsNext]_vars

(***************************************************************************)
(* main(): one run of the script.                                          *)
(***************************************************************************)
Selections ==
    UNION { {sq \in [1..n -> Choices] : \A a, b \in 1..n : a # b => sq[a] # sq[b]} :
            n \in 0..MaxSelected }

Cut(bars, cols) == [k \in 1..Len(bars) |-> Restrict(bars[k], cols)]

TwoBars == << OHLCV(PyNum(99), PyNum(105), PyNum(98), PyNum(100), PyNum(2000)),
              OHLCV(PyNum(101), PyNum(115), PyNum(100), PyNum(110), PyNum(1234567)) >>

OneBar == << OHLCV(PyNum(49), PyNum(55), PyNum(48), PyNum(50), PyNum(1000)) >>

\* what stock.history(period=period) does (lines 31-32): it raises, or it
\* returns a frame: no bars, complete bars, or bars with a column left out
Responses ==
    { [raises |-> TRUE, message |-> "connection reset", hist |-> NoneData] }
    \cup { [raises |-> FALSE, message |-> "", hist |-> h] :
              h \in { Frame(AllColumns, <<>>),
                      Frame(AllColumns, TwoBars),
                      Frame(AllColumns \ {"Volume"}, Cut(OneBar, AllColumns \ {"Volume"})),
                      Frame(AllColumns \ {"High"}, Cut(TwoBars, AllColumns \ {"High"})) } }

Notice(level, text, ticker) == [level |-> level, text |-> text, ticker |-> ticker]

\* load_stock_data letting the provider's exception through
load_stock_data_unguarded(ticker, response) ==
    IF response.raises
    THEN [exc |-> "Exception", data |-> NoneData, notices |-> <<>>]
    ELSE IF IsEmpty(response.hist)
         THEN [exc |-> "", data |-> NoneData,
               notices |-> <<Notice("warning", "No data available for " \o ticker, ticker)>>]
         ELSE [exc |-> "", data |-> response.hist, notices |-> <<>>]

\* load_stock_data(ticker, period) (lines 28-39) given the provider's
\* response: the data returned and the notice shown; no exception escapes
load_stock_data(ticker, response) ==
    IF response.raises
    THEN [exc |-> "", data |-> NoneData,
          notices |-> <<Notice("error", "Error loading data for " \o ticker \o ": "
                                        \o response.message, ticker)>>]
    ELSE IF IsEmpty(response.hist)
         THEN [exc |-> "", data |-> NoneData,
               notices |-> <<Notice("warning", "No data available for " \o ticker, ticker)>>]
         ELSE [exc |-> "", data |-> response.hist, notices |-> <<>>]

Request(tab, company, response, loaded) ==
    [tab |-> tab, company |-> company, ticker |-> MINING_STOCKS(company),
     kind |-> IF response.raises THEN "raised"
              ELSE IF IsEmpty(response.hist) THEN "empty" ELSE "frame",
     data |-> loaded.data]

NoTable == [shown |-> FALSE, rows |-> <<>>]

MetricsIdle ==
    /\ data = NoneData
    /\ op = NoOp
    /\ out = NoOut

\* a run of the script begins with the widgets' values: any selection the
\* user can have made
Init ==
    /\ MetricsIdle
    /\ selected \in Selections
    /\ pc = "start"
    /\ idx = 0
    /\ requests = <<>>
    /\ notices = <<>>
    /\ charts = <<>>
    /\ tiles = <<>>
    /\ summary_data = <<>>
    /\ table = NoTable
    /\ exc = ""

\* lines 80-100: title, sidebar, and the tabs when something is selected
Start ==
    /\ pc = "start"
    /\ IF selected # <<>>
       THEN pc' = "charts" /\ idx' = 1
       ELSE pc' = "done" /\ idx' = 0
    /\ UNCHANGED <<metricsVars, selected, requests, notices, charts, tiles,
                   summary_data, table, exc>>

\* one pass of the loop of the Charts tab (lines 104-132)
ChartsIteration ==
    /\ pc = "charts"
    /\ \E response \in Responses :
         LET company == selected[idx]
             ticker == MINING_STOCKS(company)
             loaded == load_stock_data(ticker, response)
             d == loaded.data
             chart == create_stock_chart(d, company)
             shown == ~d.none /\ ~IsEmpty(d) /\ loaded.exc = ""
             metrics == metric_tiles(d)
             failure == IF loaded.exc # "" THEN loaded.exc
                        ELSE IF ~shown THEN ""
                        ELSE IF chart.exc # "" THEN chart.exc
                        ELSE metrics.exc
         IN  /\ requests' = Append(requests, Request("charts", company, response, loaded))
             /\ notices' = notices \o loaded.notices
             /\ charts' = IF shown /\ chart.exc = "" /\ ~chart.fig.none
                          THEN Append(charts, [company |-> company, fig |-> chart.fig])
                          ELSE charts
             /\ tiles' = IF shown /\ chart.exc = ""
                         THEN Append(tiles, [company |-> company, tiles |-> metrics.tiles])
                         ELSE tiles
             /\ exc' = failure
             /\ IF failure # "" THEN pc' = "crashed" /\ idx' = idx
                ELSE IF idx < Len(selected) THEN pc' = "charts" /\ idx' = idx + 1
                ELSE pc' = "summary" /\ idx' = 1
    /\ UNCHANGED <<metricsVars, selected, summary_data, table>>

\* one pass of the loop of the Summary tab (lines 137-166)
SummaryIteration ==
    /\ pc = "summary"
    /\ \E response \in Responses :
         LET company == selected[idx]
             ticker == MINING_STOCKS(company)
             loaded == load_stock_data(ticker, response)
             d == loaded.data
             built == summary_row(company, ticker, d)
             failure == IF loaded.exc # "" THEN loaded.exc
                        ELSE IF d.none THEN "" ELSE built.exc
         IN  /\ requests' = Append(requests, Request("summary", company, response, loaded))
             /\ notices' = notices \o loaded.notices
             /\ summary_data' = IF ~d.none /\ failure = ""
                                THEN Append(summary_data, built.row)
                                ELSE summary_data
             /\ exc' = failure
             /\ IF failure # "" THEN pc' = "crashed" /\ idx' = idx
                ELSE IF idx < Len(selected) THEN pc' = "summary" /\ idx' = idx + 1
                ELSE pc' = "finish" /\ idx' = 0
    /\ UNCHANGED <<metricsVars, selected, charts, tiles, table>>

AggregateNotice ==
    Notice("warning", "No data available for the selected stocks", "")

\* the Summary tab showing the table whether or not it has rows
SummaryFinish_always_table ==
    /\ pc = "finish"
    /\ table' = [shown |-> TRUE, rows |-> summary_data]
    /\ pc' = "done"
    /\ UNCHANGED <<metricsVars, selected, idx, requests, notices, charts, tiles,
                   summary_data, exc>>

\* the end of the Summary tab (lines 168-172): the table, or one warning
SummaryFinish ==
    /\ pc = "finish"
    /\ IF summary_data # <<>>
       THEN /\ table' = [shown |-> TRUE, rows |-> summary_data]
            /\ notices' = notices
       ELSE /\ table' = table
            /\ notices' = Append(notices, AggregateNotice)
    /\ pc' = "done"
    /\ UNCHANGED <<metricsVars, selected, idx, requests, charts, tiles,
                   summary_data, exc>>

\* the user changes the selection: the framework runs the script again,
\* from the top, with nothing kept of the last run
Rerun ==
    /\ pc \in {"done", "crashed"}
    /\ selected' \in Selections
    /\ pc' = "start"
    /\ idx' = 0
    /\ requests' = <<>>
    /\ notices' = <<>>
    /\ charts' = <<>>
    /\ tiles' = <<>>
    /\ summary_data' = <<>>
    /\ table' = NoTable
    /\ exc' = ""
    /\ UNCHANGED metricsVars

Next ==
    \/ Start
    \/ ChartsIteration
    \/ SummaryIteration
    \/ SummaryFinish
    \/ Rerun

Spec == Init /\ [][Next]_vars

(***************************************************************************)
(* Properties of the safe-metrics functions (MetricsSpec).                 *)
(***************************************************************************)
LastBar == data.bars[Len(data.bars)]
PrevBar == data.bars[Len(data.bars) - 1]
TileValues == [k \in 1..Len(out.tiles) |-> out.tiles[k].value]
MetricKeys == RowKeys \ {"Company", "Ticker"}
IsText(v) == v.t = "str"

\* the shapes C1 speaks of: of the columns only metric columns are missing
C1_Shape == data.none \/ IsEmpty(data) \/ "Open" \in data.cols

\* C1: whatever the shape of the series (empty, one bar, more bars, any of
\* the columns Close/High/Low/Volume missing), computing the metrics of the
\* Charts tiles and of the Summary row lets no exception escape, and every
\* field is a formatted value or "N/A".
C1_MetricsNeverRaise ==
    C1_Shape =>
       /\ op.name = "metric_tiles" =>
             /\ out.exc = ""
             /\ (~data.none /\ ~IsEmpty(data)) => Len(out.tiles) = 4
             /\ \A k \in 1..Len(out.tiles) : IsText(out.tiles[k].value)
       /\ op.name = "summary_row" =>
             /\ out.exc = ""
             /\ (~data.none /\ ~IsEmpty(data)) => out.row # <<>>
             /\ out.row # <<>> => \A k \in MetricKeys : IsText(out.row[k])

\* C2: for an empty or null series every metrics operation gives "N/A",
\* the get_safe_value calls made with default=0 included, and none raises.
\* (main computes no tile and no row for such a series: of these only the
\* absence of an exception and of any other value is required.)
C2_EmptyIsUnavailable ==
    (data.none \/ IsEmpty(data)) =>
       /\ op.name \in {"get_safe_value", "calculate_daily_change"} => out.value = NA
       /\ op.name = "metric_tiles" =>
             out.exc = "" /\ \A k \in 1..Len(out.tiles) : out.tiles[k].value = NA
       /\ op.name = "summary_row" =>
             out.exc = "" /\ (out.row # <<>> => \A k \in MetricKeys : out.row[k] = NA)

\* the hundredths nearest to the float64 value of (last - prev) / prev *
\* 100 (prev > 0), in magnitude: within half a hundredth of the exact
\* quotient and, when the exact quotient is halfway, on the side where the
\* float lies (the even one when the float is halfway itself)
C3_Hundredths(last, prev) ==
    LET x == 10000 * Abs(last - prev)
        lo == x \div prev
        side == ProductSide(Abs(last - prev), prev)
    IN  CHOOSE q \in {lo, lo + 1} :
           /\ 2 * Abs(q * prev - x) <= prev
           /\ 2 * Abs(q * prev - x) = prev =>
                 IF side > 0 THEN q = lo + 1
                 ELSE IF side < 0 THEN q = lo
                 ELSE q % 2 = 0

C3_Expected(last, prev) ==
    LET q == IF last = prev THEN 0 ELSE C3_Hundredths(last, prev)
    IN  PyStr((IF last < prev THEN "-" ELSE "") \o ToString(q \div 100)
              \o "." \o Pad2(q % 100) \o "%")

C3_Applies ==
    /\ op.name = "calculate_daily_change"
    /\ ~data.none
    /\ "Close" \in data.cols
    /\ Len(data.bars) >= 2
    /\ LastBar["Close"].t = "num"
    /\ PrevBar["Close"].t = "num"
    /\ PrevBar["Close"].n > 0

\* C3: with at least two bars and a non-zero second-to-last close,
\* calculate_daily_change is (close[last] - close[last-1]) / close[last-1]
\* * 100 to two decimals with a trailing '%'; closes [100, 110] give
\* "10.00%"; the bars before the last two play no part.  The two decimals
\* are those of the float64 the code computes: closes [160, 67] give
\* "-58.13%", the float lying just below -58.125.
C3_DailyChangeFormula ==
    C3_Applies =>
       /\ out.value = C3_Expected(LastBar["Close"].n, PrevBar["Close"].n)
       /\ (PrevBar["Close"].n = 100 /\ LastBar["Close"].n = 110)
             => out.value = PyStr("10.00%")
       /\ (PrevBar["Close"].n = 160 /\ LastBar["Close"].n = 67)
             => out.value = PyStr("-58.13%")

\* three bars, the change computed from the last two: 110 then 50
C3_Witness ==
    /\ C3_Applies
    /\ Len(data.bars) = 3
    /\ data.bars[1]["Close"] = PyNum(100)
    /\ PrevBar["Close"] = PyNum(110)
    /\ out.value = PyStr("-54.55%")

C4_Applies ==
    /\ ~data.none
    /\ Len(data.bars) = 1
    /\ data.cols = AllColumns
    /\ \A c \in AllColumns : data.bars[1][c].t = "num"

ScenarioBar == Bar(PyNum(50), PyNum(55), PyNum(48), PyNum(1000))

\* C4: with exactly one bar the daily change is "N/A" while the other
\* metrics come from that bar: current price and volume are its close and
\* volume, period high and low its high and low.
C4_SingleBar ==
    /\ (~data.none /\ Len(data.bars) = 1 /\ op.name = "calculate_daily_change")
          => out.value = NA
    /\ C4_Applies =>
         LET bar == data.bars[1]
             price == FormatPrice(bar["Close"])
             volume == FormatVolume(bar["Volume"])
             high == FormatPrice(bar["High"])
             low == FormatPrice(bar["Low"])
         IN  /\ (op.name = "get_safe_value" /\ op.default = NA)
                   => out.value = bar[op.column]
             /\ op.name = "metric_tiles" =>
                   /\ out.exc = ""
                   /\ TileValues = <<price, NA, volume, high>>
                   /\ bar = ScenarioBar =>
                         TileValues = <<PyStr("$50.00"), NA, PyStr("1,000"),
                                        PyStr("$55.00")>>
             /\ op.name = "summary_row" =>
                   /\ out.exc = ""
                   /\ out.row["Current Price"] = price
                   /\ out.row["Daily Change %"] = NA
                   /\ out.row["Volume"] = volume
                   /\ out.row["Year High"] = high
                   /\ out.row["Year Low"] = low
                   /\ bar = ScenarioBar => out.row["Year Low"] = PyStr("$48.00")

\* the summary row of the one-bar scenario series
C4_Witness ==
    /\ C4_Applies
    /\ data.bars[1] = ScenarioBar
    /\ op.name = "summary_row"
    /\ out.exc = ""
    /\ out.row["Current Price"] = PyStr("$50.00")
    /\ out.row["Daily Change %"] = NA
    /\ out.row["Volume"] = PyStr("1,000")

\* C5: with at least two bars and a second-to-last close of exactly 0 the
\* daily change is "N/A", not an infinite or NaN value shown as a percentage.
C5_ZeroBaseUnavailable ==
    ( /\ op.name = "calculate_daily_change"
      /\ ~data.none
      /\ "Close" \in data.cols
      /\ Len(data.bars) >= 2
      /\ PrevBar["Close"] = PyNum(0) ) => out.value = NA

\* C6: get_safe_value gives the field's value on the most recent bar when it
\* is present and numeric, and "N/A" when the series is empty or null, the
\* column is missing or that value is absent; so the caller never formats a
\* non-numeric value as a price or a volume.
C6_ExtractLatest ==
    /\ (op.name = "get_safe_value" /\ op.default = NA) =>
          IF /\ ~data.none
             /\ ~IsEmpty(data)
             /\ op.column \in data.cols
             /\ LastBar[op.column].t = "num"
          THEN out.value = LastBar[op.column]
          ELSE out.value = NA
    /\ (op.name = "metric_tiles" /\ out.tiles # <<>>) =>
          /\ out.tiles[1].value # PyStr("$nan")
          /\ out.tiles[3].value # PyStr("nan")

(***************************************************************************)
(* Properties of a run of main() (Spec).                                   *)
(***************************************************************************)
Ended == pc \in {"done", "crashed"}
RowCompanies == [k \in 1..Len(table.rows) |-> table.rows[k]["Company"].s]
ChartCompanies == {charts[k].company : k \in 1..Len(charts)}
RequestsOf(tab, company) ==
    {k \in 1..Len(requests) : requests[k].tab = tab /\ requests[k].company = company}
GotSeries(tab, company) ==
    \E k \in RequestsOf(tab, company) : requests[k].kind = "frame"
HasSummarySeries(company) == GotSeries("summary", company)
AggregateCount == Cardinality({k \in 1..Len(notices) : notices[k] = AggregateNotice})
NoSeriesAtAll == \A k \in 1..Len(requests) : requests[k].kind # "frame"

\* C7: in every refresh the summary table has exactly one row for each
\* selected instrument whose fetch returned a non-empty series and none for
\* one whose fetch returned no data or failed, in selection order, and no
\* unselected instrument appears.
C7_SummaryRows ==
    Ended => /\ RowCompanies = SelectSeq(selected, HasSummarySeries)
             /\ (RowCompanies # <<>> => table.shown)

\* C8 as stated: whenever every selected instrument's fetch yields no data,
\* the aggregate view shows exactly one "no data available" notice and no
\* table rows.
C8_AllUnavailableNotice ==
    (pc = "done" /\ NoSeriesAtAll) =>
        /\ AggregateCount = 1
        /\ ~table.shown
        /\ table.rows = <<>>

\* C8, amended: in a refresh with at least one instrument selected in which
\* every fetch yields no data, the aggregate view shows exactly one "no data
\* available" notice and no table (not even an empty one); a refresh never
\* shows that notice twice.
C8_Amended ==
    /\ AggregateCount <= 1
    /\ (pc = "done" /\ selected # <<>> /\ NoSeriesAtAll) =>
          /\ AggregateCount = 1
          /\ ~table.shown
          /\ table.rows = <<>>
          /\ summary_data = <<>>

\* two instruments, an empty response or a failure for each request
C8_Witness ==
    /\ pc = "done"
    /\ Len(selected) = 2
    /\ Len(requests) = 4
    /\ NoSeriesAtAll
    /\ \E k \in 1..Len(requests) : requests[k].kind = "empty"
    /\ notices[Len(notices)] = AggregateNotice

LastRequest == requests[Len(requests)]
Fetched == Len(requests') = Len(requests) + 1
Advanced ==
    IF idx < Len(selected) THEN pc' = pc /\ idx' = idx + 1
    ELSE pc' = (IF pc = "charts" THEN "summary" ELSE "finish")

\* a fetch for which the provider raised: the exception stays inside
\* load_stock_data, an error notice names the ticker, the result is None as
\* for an empty response, nothing is shown for the instrument and the run
\* moves on to the next one
C9_FaultStep ==
    (Fetched /\ LastRequest'.kind = "raised") =>
        /\ LastRequest'.data = NoneData
        /\ LastRequest'.data = load_stock_data(LastRequest'.ticker,
               [raises |-> FALSE, message |-> "", hist |-> Frame(AllColumns, <<>>)]).data
        /\ Len(notices') = Len(notices) + 1
        /\ notices'[Len(notices')].level = "error"
        /\ notices'[Len(notices')].ticker = MINING_STOCKS(selected[idx])
        /\ exc' = "" /\ pc' # "crashed"
        /\ charts' = charts /\ tiles' = tiles /\ summary_data' = summary_data
        /\ Advanced

\* a run that reached its end requested every selected instrument in both
\* tabs and shows each one for which a series came back, failures of other
\* instruments notwithstanding
C9_RestShown ==
    pc = "done" =>
       \A k \in 1..Len(selected) :
          /\ Cardinality(RequestsOf("charts", selected[k])) = 1
          /\ Cardinality(RequestsOf("summary", selected[k])) = 1
          /\ GotSeries("charts", selected[k]) => selected[k] \in ChartCompanies
          /\ GotSeries("summary", selected[k]) =>
                \E j \in 1..Len(table.rows) : RowCompanies[j] = selected[k]

\* C9: when the data source raises for a ticker, load_stock_data catches it,
\* shows an error-level notice naming the ticker and returns None as for an
\* empty response; the refresh goes on and the remaining selected
\* instruments are still fetched and displayed.
C9_FaultIsLocal == []C9_RestShown /\ [][C9_FaultStep]_vars

\* the first instrument's chart request raised; the second instrument has
\* its chart and its row
C9_Witness ==
    /\ pc = "done"
    /\ Len(selected) = 2
    /\ requests[1].kind = "raised"
    /\ notices[1].level = "error"
    /\ selected[2] \in ChartCompanies
    /\ \E j \in 1..Len(table.rows) : RowCompanies[j] = selected[2]

TilesOf(company) ==
    tiles[CHOOSE k \in 1..Len(tiles) : tiles[k].company = company].tiles
RowOf(company) ==
    table.rows[CHOOSE k \in 1..Len(table.rows) : RowCompanies[k] = company]

\* C10: within one refresh each selected instrument's series is requested
\* once and feeds both views, so the instruments shown with a chart are the
\* instruments with a summary row, and their current price, daily change
\* and volume agree between the two views.  Stated of the runs that reach
\* their end, where both views are complete.
C10_OneSeriesBothViews ==
    pc = "done" =>
       /\ ChartCompanies = {RowCompanies[k] : k \in 1..Len(table.rows)}
       /\ \A c \in ChartCompanies :
             /\ TilesOf(c)[1].value = RowOf(c)["Current Price"]
             /\ TilesOf(c)[2].value = RowOf(c)["Daily Change %"]
             /\ TilesOf(c)[3].value = RowOf(c)["Volume"]

====
